---- MODULE Spec2Model ----
(***************************************************************************)
(* The node agent of connectivity-settings (masternode_monitor.py): one    *)
(* invocation of main() reads the persisted production state from          *)
(* ~/.bashrc, evaluates quorum membership and quorum change, audits block  *)
(* production (just produced / fast path / binary search over heights) and *)
(* sends a report.                                                         *)
(*                                                                         *)
(* Python values: a str is a sequence of character codes; None is <<>>     *)
(* and an int n is <<n>> wherever the code holds "int or None"; the        *)
(* tri-state in_quorum is "True", "False" or "None".                       *)
(***************************************************************************)
EXTENDS Integers, Sequences, FiniteSets, TLC

VARIABLES chain, bashrc, env, pc, frame, probes, pre, prev, writing,
          heartbeat_data, heartbeat_file, temp_file, requests, response

vars ==
    <<chain, bashrc, env, pc, frame, probes, pre, prev, writing,
      heartbeat_data, heartbeat_file, temp_file, requests, response>>

\* The state of the collector (monitor_server.py).
collectorVars == <<heartbeat_data, heartbeat_file, temp_file, requests, response>>

\* The state of the node agent (masternode_monitor.py).
agentVars == <<chain, bashrc, env, pc, frame, probes, pre, prev, writing>>

\* ---------------------------------------------------------------- bounds

\* Blocks on the chain when the agent is first run.
GenesisLen == 3

\* Highest block height the chain grows to.
MaxHeight == 4

\* ------------------------------------------------------- program constants

\* Fewer fetched validators than this is treated as a failed fetch.
MIN_ACTIVE_VALIDATORS == 67

\* ---------------------------------------------------------------- strings

None == <<>>

Some(n) == <<n>>

\* Character codes of the hexadecimal digit n, upper and lower case.
HexUpper(n) == IF n < 10 THEN 48 + n ELSE 55 + n

HexLower(n) == IF n < 10 THEN 48 + n ELSE 87 + n

QUOTE == <<34>>

\* str.upper()
upper(s) == [i \in DOMAIN s |-> IF s[i] \in 97..122 THEN s[i] - 32 ELSE s[i]]

\* str.lower(), as hexdigest() renders its digits
lower(s) == [i \in DOMAIN s |-> IF s[i] \in 65..90 THEN s[i] + 32 ELSE s[i]]

\* str.strip('"'): leading and trailing quote characters removed.
RECURSIVE strip_quotes(_)
strip_quotes(s) ==
    IF s = <<>> THEN s
    ELSE IF Head(s) = 34 THEN strip_quotes(Tail(s))
    ELSE IF s[Len(s)] = 34 THEN strip_quotes(SubSeq(s, 1, Len(s) - 1))
    ELSE s

\* Python's a < b on str: lexicographic by character code, a proper prefix first.
StrLess(a, b) ==
    \E i \in 1..(Len(a) + 1) :
        /\ i <= Len(b)
        /\ \A j \in 1..(i - 1) : a[j] = b[j]
        /\ \/ i = Len(a) + 1
           \/ a[i] < b[i]

\* str(n) for an int n.
RECURSIVE DecDigits(_)
DecDigits(n) == IF n < 10 THEN <<48 + n>> ELSE Append(DecDigits(n \div 10), 48 + (n % 10))

str(n) == IF n < 0 THEN <<45>> \o DecDigits(0 - n) ELSE DecDigits(n)

\* A digit character that is no decimal digit: superscript two.
SUPERSCRIPT_TWO == 178

\* str.isdigit(): non-empty and digit characters only; the decimal digits
\* are digit characters, and so are the superscript digits.
isdigit(s) == s # <<>> /\ \A i \in DOMAIN s : s[i] \in (48..57) \cup {SUPERSCRIPT_TWO}

\* int(s) raises ValueError: s has a character that is no decimal digit.
IntRaises(s) == \E i \in DOMAIN s : s[i] \notin 48..57

\* int(s) for a string of decimal digits.
RECURSIVE int(_)
int(s) == IF s = <<>> THEN 0 ELSE 10 * int(SubSeq(s, 1, Len(s) - 1)) + (s[Len(s)] - 48)

\* list.index(x): 0-based position of the first occurrence.
index(list, x) ==
    CHOOSE i \in 0..(Len(list) - 1) :
        /\ list[i + 1] = x
        /\ \A j \in 0..(i - 1) : list[j + 1] # x

Contains(list, x) == \E i \in DOMAIN list : list[i] = x

RECURSIVE Flatten(_)
Flatten(ss) == IF ss = <<>> THEN <<>> ELSE Head(ss) \o Flatten(Tail(ss))

\* ------------------------------------------------------------ identifiers

\* The node's proTxHash as dashmate status prints it ("5a").
PRO_TX_HASH_RAW == <<HexLower(5), HexLower(10)>>

SELF == <<HexUpper(5), HexUpper(10)>>

\* "1B": sorts before SELF.
LO == <<HexUpper(1), HexUpper(11)>>

\* "9C": sorts after SELF.
HI == <<HexUpper(9), HexUpper(12)>>

\* "7D": a validator that proposes no block of the modelled chain.
THIRD == <<HexUpper(7), HexUpper(13)>>

\* Validators A0, A1, ..: the rest of a quorum; they propose no modelled block.
Filler(i) == <<HexUpper(10 + (i \div 16)), HexUpper(i % 16)>>

Pad(prefix, n) == prefix \o [i \in 1..(n - Len(prefix)) |-> Filler(i - 1)]

Dec(a, b) == <<48 + a, 48 + b>>

\* Ordered member lists the consensus state dump can report.
QuorumSelfFirst == Pad(<<PRO_TX_HASH_RAW, LO, HI>>, MIN_ACTIVE_VALIDATORS)

QuorumSelfAfter == Pad(<<LO, HI, SELF>>, MIN_ACTIVE_VALIDATORS + 1)

QuorumWithoutSelf == Pad(<<LO, HI, THIRD>>, MIN_ACTIVE_VALIDATORS)

QuorumDecimal ==
    Pad(<<Dec(1, 0), Dec(3, 0), Dec(7, 0), Dec(2, 0), SELF, HI>>, MIN_ACTIVE_VALIDATORS)

QuorumTooSmall == SubSeq(QuorumSelfFirst, 1, MIN_ACTIVE_VALIDATORS - 1)

\* Self first and HI three places after it.
QuorumSelfFar == Pad(<<SELF, LO, THIRD, HI>>, MIN_ACTIVE_VALIDATORS)

\* Self first and HI the last member.
QuorumHiLast == Append(Pad(<<SELF, LO>>, MIN_ACTIVE_VALIDATORS - 1), HI)

\* Self in a list that has no HI.
QuorumWithoutHi == Pad(<<SELF, LO, THIRD>>, MIN_ACTIVE_VALIDATORS)

\* stdout of the dump_consensus_state pipeline, as lines: one quoted
\* pro_tx_hash per line; no line at all when the command fails or prints nothing.
Quoted(list) == SubSeq([i \in DOMAIN list |-> QUOTE \o list[i] \o QUOTE], 1, Len(list))

ActiveValidatorsOutputs ==
    << <<>>, Quoted(QuorumTooSmall), Quoted(QuorumSelfFirst), Quoted(QuorumSelfAfter),
       Quoted(QuorumWithoutSelf), Quoted(QuorumDecimal), Quoted(QuorumSelfFar),
       Quoted(QuorumHiLast), Quoted(QuorumWithoutHi) >>

\* Validators that propose the blocks of the modelled chain, as the block
\* endpoint prints them.
Proposers == {PRO_TX_HASH_RAW, LO, HI}

\* --------------------------------------------------------- persisted state

LAST_PRODUCED == "LAST_PRODUCED_BLOCK_HEIGHT"

LAST_SHOULD == "LAST_SHOULD_PRODUCE_BLOCK_HEIGHT"

QUORUM_HASH == "VALIDATOR_QUORUM_HASH"

\* A line "export <key>=<value>" of ~/.bashrc.
ExportLine(name, value) == [key |-> name, value |-> value]

\* ~/.bashrc: a file of lines, no file at all, or a file that cannot be
\* read (no permission, or bytes that are no text).
File(lines) == [state |-> "file", lines |-> lines]

MissingFile == [state |-> "missing", lines |-> <<>>]

UnreadableFile == [state |-> "unreadable", lines |-> <<>>]

\* load_bashrc_variables: every export line is put into os.environ, in file
\* order, so the last line of a key wins; a line with a second "=" is
\* skipped. A fresh process has none of the three settings in its
\* environment, and a missing file gives it none.
RECURSIVE load_lines(_)
load_lines(lines) ==
    IF lines = <<>> THEN <<>>
    ELSE LET rest == load_lines(SubSeq(lines, 1, Len(lines) - 1))
             last == lines[Len(lines)]
         IN  IF \E i \in DOMAIN last.value : last.value[i] = 61
             THEN rest
             ELSE [k \in (DOMAIN rest) \cup {last.key} |->
                     IF k = last.key THEN last.value ELSE rest[k]]

load_bashrc_variables(file) ==
    IF file.state = "file" THEN load_lines(file.lines) ELSE <<>>

\* load_bashrc_variables raises: the file is there and reading it fails.
LoadRaises(file) == file.state = "unreadable"

\* get_env_variable: the int value of a setting, None when it is missing,
\* empty or not made of decimal digits only.
get_env_variable(environ, name) ==
    IF name \in DOMAIN environ /\ environ[name] # <<>> /\ isdigit(environ[name])
    THEN Some(int(environ[name]))
    ELSE None

\* get_env_variable raises: isdigit() accepts the value and int() does not.
GetEnvRaises(environ, name) ==
    /\ name \in DOMAIN environ
    /\ isdigit(environ[name])
    /\ IntRaises(environ[name])

\* set_env_variable, the os.environ half: os.environ[name] = str(value).
SetEnviron(environ, name, text) ==
    [k \in (DOMAIN environ) \cup {name} |-> IF k = name THEN text ELSE environ[k]]

\* set_env_variable, the ~/.bashrc half: every line of the key is rewritten,
\* or a line is appended when the key has none. The file is read first: when
\* that fails (no file, or a file that cannot be read) the exception is
\* caught, a message is printed and nothing is written.
WriteLines(lines, name, text) ==
    IF \E i \in DOMAIN lines : lines[i].key = name
    THEN [i \in DOMAIN lines |->
             IF lines[i].key = name THEN ExportLine(name, text) ELSE lines[i]]
    ELSE Append(lines, ExportLine(name, text))

\* Mutant of WriteBashrc: nothing is written.
WriteBashrcNothing(file, name, text) == file

WriteBashrc(file, name, text) ==
    IF file.state = "file"
    THEN [file EXCEPT !.lines = WriteLines(file.lines, name, text)]
    ELSE file

\* The setting a later invocation reads back.
Persisted(name) == get_env_variable(load_bashrc_variables(bashrc), name)

\* compute_hash: sha256(str(value)).hexdigest(). The digest is modelled as a
\* collision-free hexadecimal rendering of the list, short enough to be read
\* as an int: the digest sha256 gives the empty list (its first eight digits),
\* else the digits of the first four members.
EmptyListDigest == <<52, 102, 53, 51, 99, 100, 97, 49>>

compute_hash(value) ==
    IF value = <<>> THEN EmptyListDigest
    ELSE lower(Flatten(SubSeq(value, 1, 4)))

\* ------------------------------------------------------------------ chain

\* What jq -r prints for a field the answer does not have.
NULL == <<110, 117, 108, 108>>

\* The block endpoint's answer for the proposer of height h: jq prints the
\* header's proposer_pro_tx_hash, and null for a height the chain does not
\* have (the endpoint answers with an error object).
ProposerAt(h) == IF h \in DOMAIN chain THEN chain[h] ELSE NULL

\* What the block endpoint pipeline prints for height h when the command
\* succeeds: the proposer, or nothing at all (curl got no answer and jq read
\* no input).
BlockProposerOutputs(h) == {ProposerAt(h), <<>>}

\* ------------------------------------------------------------- invocation

\* The locals of main() before the invocation starts. The output of the
\* quorum fetch is held as its position in ActiveValidatorsOutputs (fetched, 0
\* before the fetch); the locals active_validators and validators_in_quorum
\* are read off it.
NoFrame ==
    [ pro_tx_hash |-> <<>>,
      latest_block_height |-> 0,
      latest_block_validator |-> <<>>,
      last_produce_block_height |-> None,
      last_should_produce_block_height |-> None,
      produce_block_status |-> "",
      fetched |-> 0,
      in_quorum |-> "None",
      changed_quorum |-> FALSE,
      changing_quorum |-> FALSE,
      search_start |-> 0,
      search_end |-> 0,
      left |-> 0,
      right |-> 0,
      found_block |-> FALSE ]

\* What ~/.bashrc held when the invocation started (history, for the properties).
NoPre == [produced |-> None, should |-> None]

\* The invocation before this one, when it sent its report and no block was
\* added since (history, for the properties): what it read, its
\* changed_quorum, whether every probe was answered with the proposer of its
\* height, and the status it reported.
NoPrev ==
    [ fetched |-> 0,
      latest_block_validator |-> <<>>,
      changed_quorum |-> FALSE,
      answered |-> FALSE,
      status |-> "" ]

\* -------------------------------------------------------------- collector

\* dict.get(key, default): a field the dict does not have is None.
Get(field, default) == IF field = None THEN default ELSE field[1]

\* dict[key] = value
Put(dict, key, value) ==
    [k \in (DOMAIN dict) \cup {key} |-> IF k = key THEN value ELSE dict[k]]

\* The heartbeat file and its temporary file: no file, a file opened with
\* "w" and not written yet (no JSON), or the JSON of a map of records.
NoFile == [state |-> "missing", data |-> <<>>]

EmptyFile == [state |-> "empty", data |-> <<>>]

JsonFile(data) == [state |-> "json", data |-> data]

\* load_from_file: {} when the file is missing or holds no JSON.
load_from_file(file) == IF file.state = "json" THEN file.data ELSE <<>>

\* The JSON body of a heartbeat, in the fields the handler reads, and the
\* record of a server; {} is the record with no field.
NoRecord ==
    [ serverName |-> "",
      blocks |-> None,
      validatorsInQuorum |-> None,
      prevValidatorsInQuorum |-> None ]

\* The request handled last, by its body and the status it was answered with.
Answer(status, data) == [status |-> status, data |-> data]

\* The threads that handle requests at the same time.
Threads == {1, 2}

\* A thread that handles no request.
NoRequest == [pc |-> "idle", data |-> NoRecord, fd |-> "closed"]

\* The collector process has started: heartbeat_data = {} (the file is not
\* read at start) and no file has been written.
CollectorStarted ==
    /\ heartbeat_data = <<>>
    /\ heartbeat_file = NoFile
    /\ temp_file = NoFile
    /\ requests = [thread \in Threads |-> NoRequest]
    /\ response = Answer(0, NoRecord)

\* No call of set_env_variable is between its open() and its close().
NoWrite == [name |-> "", old |-> <<>>, new |-> <<>>]

Init ==
    /\ chain \in [1..GenesisLen -> Proposers]
    /\ bashrc = File(<<>>)
    /\ env = <<>>
    /\ pc = "idle"
    /\ frame = NoFrame
    /\ probes = <<>>
    /\ pre = NoPre
    /\ prev = NoPrev
    /\ writing = NoWrite
    /\ CollectorStarted

\* A block is added to the chain between two invocations.
NewBlock ==
    /\ pc = "idle"
    /\ Len(chain) < MaxHeight
    /\ \E p \in Proposers : chain' = Append(chain, p)
    /\ prev' = NoPrev
    /\ UNCHANGED <<bashrc, env, pc, frame, probes, pre, writing, collectorVars>>

\* Step 8 of main(): the status derived from the state read at start.
StatusFromState(produced, should) ==
    IF produced # None
    THEN IF produced = should THEN "OK" ELSE "ERROR"
    ELSE "NO_DATA"

\* main() from its start to the end of step 8: the settings are loaded, the
\* node status and the proposer of the latest block are read (upper-cased)
\* and the status is derived from the loaded state.
Begin ==
    /\ pc = "idle"
    /\ ~LoadRaises(bashrc)
    /\ ~GetEnvRaises(load_bashrc_variables(bashrc), LAST_PRODUCED)
    /\ ~GetEnvRaises(load_bashrc_variables(bashrc), LAST_SHOULD)
    /\ LET environ == load_bashrc_variables(bashrc)
           produced == get_env_variable(environ, LAST_PRODUCED)
           should == get_env_variable(environ, LAST_SHOULD)
           height == Len(chain)
       IN  /\ env' = environ
           /\ \E output \in BlockProposerOutputs(height) :
                frame' = [NoFrame EXCEPT
                  !.pro_tx_hash = upper(PRO_TX_HASH_RAW),
                  !.latest_block_height = height,
                  !.latest_block_validator = upper(output),
                  !.last_produce_block_height = produced,
                  !.last_should_produce_block_height = should,
                  !.produce_block_status = StatusFromState(produced, should)]
           /\ pre' = [produced |-> produced, should |-> should]
    /\ pc' = "quorum"
    /\ probes' = <<>>
    /\ UNCHANGED <<chain, bashrc, prev, writing, collectorVars>>

\* main() returns in step 1: dashmate status prints nothing or no JSON, the
\* masternode data is missing, or the latest height is not an integer.
\* Nothing is persisted and no report is sent.
BeginFails ==
    /\ pc = "idle"
    /\ ~LoadRaises(bashrc)
    /\ pc' = "aborted"
    /\ env' = load_bashrc_variables(bashrc)
    /\ UNCHANGED <<chain, bashrc, frame, probes, pre, prev, writing, collectorVars>>

\* main() returns in step 1 because the node status has no proTxHash: the
\* message "Invalid or missing proTxHash." is printed and main() returns.
MissingProTxHash ==
    /\ pc = "idle"
    /\ ~LoadRaises(bashrc)
    /\ pc' = "rejected"
    /\ env' = load_bashrc_variables(bashrc)
    /\ UNCHANGED <<chain, bashrc, frame, probes, pre, prev, writing, collectorVars>>

\* An exception between the node status and step 8: the balance query fails
\* and isdigit() is called on None (step 6), or the query of the latest
\* proposer fails and upper() is called on None (step 7).
BeginCrashes ==
    /\ pc = "idle"
    /\ ~LoadRaises(bashrc)
    /\ ~GetEnvRaises(load_bashrc_variables(bashrc), LAST_PRODUCED)
    /\ ~GetEnvRaises(load_bashrc_variables(bashrc), LAST_SHOULD)
    /\ pc' = "crashed"
    /\ env' = load_bashrc_variables(bashrc)
    /\ UNCHANGED <<chain, bashrc, frame, probes, pre, prev, writing, collectorVars>>

\* An exception while the stored state is read: ~/.bashrc is there and
\* cannot be read (load_bashrc_variables raises), or a stored height is made
\* of digit characters int() does not take (get_env_variable raises).
StateReadCrashes ==
    /\ pc = "idle"
    /\ \/ LoadRaises(bashrc)
       \/ GetEnvRaises(load_bashrc_variables(bashrc), LAST_PRODUCED)
       \/ GetEnvRaises(load_bashrc_variables(bashrc), LAST_SHOULD)
    /\ pc' = "crashed"
    /\ env' = load_bashrc_variables(bashrc)
    /\ UNCHANGED <<chain, bashrc, frame, probes, pre, prev, writing, collectorVars>>

\* Step 9: membership. No output, or fewer than MIN_ACTIVE_VALIDATORS lines,
\* gives in_quorum None and an empty list; else the members are unquoted and
\* upper-cased and in_quorum tells whether pro_tx_hash is one of them.
ActiveValidatorsList(active_validators) ==
    [i \in DOMAIN active_validators |-> upper(strip_quotes(active_validators[i]))]

\* active_validators_list of every output the fetch can print, worked out once:
\* ActiveValidatorsLists[k] is ActiveValidatorsList(ActiveValidatorsOutputs[k]),
\* written out as a sequence of strings.
ActiveValidatorsLists ==
    LET unquoted(k) == ActiveValidatorsList(ActiveValidatorsOutputs[k])
        written(k) == SubSeq([i \in DOMAIN unquoted(k) |->
                                 SubSeq(unquoted(k)[i], 1, Len(unquoted(k)[i]))],
                             1, Len(unquoted(k)))
    IN  SubSeq([k \in DOMAIN ActiveValidatorsOutputs |-> written(k)],
               1, Len(ActiveValidatorsOutputs))

ValidatorsInQuorum(active_validators, active_validators_list) ==
    IF active_validators = <<>> THEN <<>>
    ELSE IF Len(active_validators) < MIN_ACTIVE_VALIDATORS THEN <<>>
    ELSE active_validators_list

\* Mutant of InQuorum: an unusable fetch reported as "not in quorum".
InQuorumFalseWhenUnknown(active_validators, active_validators_list, pro_tx_hash) ==
    IF active_validators = <<>> THEN "False"
    ELSE IF Len(active_validators) < MIN_ACTIVE_VALIDATORS THEN "False"
    ELSE IF Contains(active_validators_list, pro_tx_hash) THEN "True"
    ELSE "False"

InQuorum(active_validators, active_validators_list, pro_tx_hash) ==
    IF active_validators = <<>> THEN "None"
    ELSE IF Len(active_validators) < MIN_ACTIVE_VALIDATORS THEN "None"
    ELSE IF Contains(active_validators_list, pro_tx_hash) THEN "True"
    ELSE "False"

\* The locals active_validators and validators_in_quorum of a frame.
active_validators_of(f) ==
    IF f.fetched = 0 THEN <<>> ELSE ActiveValidatorsOutputs[f.fetched]

validators_in_quorum_of(f) ==
    IF f.fetched = 0 THEN <<>>
    ELSE ValidatorsInQuorum(ActiveValidatorsOutputs[f.fetched],
                            ActiveValidatorsLists[f.fetched])

\* changed_quorum: previous_quorum_hash is what get_env_variable returns (an
\* int or None) and current_quorum_hash is a str; an int is never equal to a
\* str, so the test is "previous_quorum_hash is a non-zero int".
ChangedQuorum(previous_quorum_hash, current_quorum_hash) ==
    /\ previous_quorum_hash # None
    /\ previous_quorum_hash[1] # 0

\* Mutant of ChangingQuorum: never set.
ChangingQuorumNever(validators_in_quorum, latest_block_validator) == FALSE

\* changing_quorum: the latest proposer is the last member of the list or is
\* not in it.
ChangingQuorum(validators_in_quorum, latest_block_validator) ==
    IF Contains(validators_in_quorum, latest_block_validator)
    THEN index(validators_in_quorum, latest_block_validator) = Len(validators_in_quorum) - 1
    ELSE TRUE

\* Mutant of Quorum: the hash is persisted before it is compared, so the
\* comparison reads the hash just written.
QuorumPersistsFirst ==
    /\ pc = "quorum"
    /\ \E fetched \in DOMAIN ActiveValidatorsOutputs :
         LET active_validators == ActiveValidatorsOutputs[fetched]
             active_validators_list == ActiveValidatorsLists[fetched]
             validators_in_quorum ==
                 ValidatorsInQuorum(active_validators, active_validators_list)
             current_quorum_hash == compute_hash(validators_in_quorum)
             environ == SetEnviron(env, QUORUM_HASH, current_quorum_hash)
             previous_quorum_hash == get_env_variable(environ, QUORUM_HASH)
         IN  /\ frame' = [frame EXCEPT
                    !.fetched = fetched,
                    !.in_quorum = InQuorum(active_validators, active_validators_list,
                                           frame.pro_tx_hash),
                    !.changed_quorum =
                        ChangedQuorum(previous_quorum_hash, current_quorum_hash),
                    !.changing_quorum =
                        ChangingQuorum(validators_in_quorum, frame.latest_block_validator)]
             /\ env' = environ
             /\ bashrc' = WriteBashrc(bashrc, QUORUM_HASH, current_quorum_hash)
    /\ pc' = "audit"
    /\ UNCHANGED <<chain, probes, pre, prev, writing, collectorVars>>

\* Step 9 and the quorum hash: membership is evaluated, the hash of the
\* member list is compared with the persisted one and then persisted, and
\* changing_quorum is set.
Quorum ==
    /\ pc = "quorum"
    /\ \E fetched \in DOMAIN ActiveValidatorsOutputs :
         LET active_validators == ActiveValidatorsOutputs[fetched]
             active_validators_list == ActiveValidatorsLists[fetched]
             validators_in_quorum ==
                 ValidatorsInQuorum(active_validators, active_validators_list)
             previous_quorum_hash == get_env_variable(env, QUORUM_HASH)
             current_quorum_hash == compute_hash(validators_in_quorum)
         IN  /\ frame' = [frame EXCEPT
                    !.fetched = fetched,
                    !.in_quorum = InQuorum(active_validators, active_validators_list,
                                           frame.pro_tx_hash),
                    !.changed_quorum =
                        ChangedQuorum(previous_quorum_hash, current_quorum_hash),
                    !.changing_quorum =
                        ChangingQuorum(validators_in_quorum, frame.latest_block_validator)]
             /\ env' = SetEnviron(env, QUORUM_HASH, current_quorum_hash)
             /\ bashrc' = WriteBashrc(bashrc, QUORUM_HASH, current_quorum_hash)
    /\ pc' = "audit"
    /\ UNCHANGED <<chain, probes, pre, prev, writing, collectorVars>>

\* Mutant of SearchStart: the two indexes exchanged.
SearchStartExchanged(latest_block_height, latest_block_validator_index, pro_tx_hash_index) ==
    (latest_block_height - pro_tx_hash_index) + latest_block_validator_index

\* The search window of the audit.
SearchStart(latest_block_height, latest_block_validator_index, pro_tx_hash_index) ==
    (latest_block_height - latest_block_validator_index) + pro_tx_hash_index

\* Mutant of SearchEnd: the window reaches the latest height.
SearchEndLatest(latest_block_height) == latest_block_height

SearchEnd(latest_block_height) == latest_block_height - 1

\* The test that skips the search: the persisted last-should height is a
\* non-zero int above search_start.
SkipSearch(last_should_produce_block_height, search_start) ==
    /\ last_should_produce_block_height # None
    /\ last_should_produce_block_height[1] # 0
    /\ last_should_produce_block_height[1] > search_start

\* Mutant of ExistingStatus: the skipped search reports OK.
ExistingStatusOk(last_produce_block_height, last_should_produce_block_height) == "OK"

\* Mutant of ExistingStatus: the comparison inverted.
ExistingStatusInverted(last_produce_block_height, last_should_produce_block_height) ==
    IF last_produce_block_height = last_should_produce_block_height THEN "ERROR" ELSE "OK"

\* The status of the skipped search.
ExistingStatus(last_produce_block_height, last_should_produce_block_height) ==
    IF last_produce_block_height # last_should_produce_block_height THEN "ERROR" ELSE "OK"

\* Mutant of QuorumStable: the changed quorum hash is not looked at.
QuorumStableIgnoringHash(changed_quorum, changing_quorum) == ~changing_quorum

\* The guard of the search branch.
QuorumStable(changed_quorum, changing_quorum) == ~changed_quorum /\ ~changing_quorum

\* Mutant of SortsAfter: any latest proposer other than self.
SortsAfterOrBefore(latest_block_validator, pro_tx_hash) == latest_block_validator # pro_tx_hash

\* "if latest_block_validator > pro_tx_hash": the test that leads to the window.
SortsAfter(latest_block_validator, pro_tx_hash) == StrLess(pro_tx_hash, latest_block_validator)

\* Mutant of MayAudit: only False keeps the audit from running.
MayAuditUnlessFalse(in_quorum) == in_quorum # "False"

\* "if in_quorum:": None and False both keep the audit from running.
MayAudit(in_quorum) == in_quorum = "True"

\* The audit, lines 367-411 of main(): not in quorum, just produced, quorum
\* change, latest proposer below self, skipped search, or the search set up.
\* Mutant of AuditJustProduced: the last-should height is not written.
AuditJustProducedOnlyProduced ==
    /\ pc = "audit"
    /\ MayAudit(frame.in_quorum)
    /\ frame.latest_block_validator = frame.pro_tx_hash
    /\ LET text == str(frame.latest_block_height)
           environ == SetEnviron(env, LAST_PRODUCED, text)
       IN  /\ env' = environ
           /\ bashrc' = WriteBashrc(bashrc, LAST_PRODUCED, text)
           /\ frame' = [frame EXCEPT
                  !.last_produce_block_height = get_env_variable(environ, LAST_PRODUCED),
                  !.last_should_produce_block_height = get_env_variable(environ, LAST_SHOULD),
                  !.produce_block_status = "OK"]
    /\ pc' = "report"
    /\ UNCHANGED <<chain, probes, pre, prev, writing, collectorVars>>

AuditJustProduced ==
    /\ pc = "audit"
    /\ MayAudit(frame.in_quorum)
    /\ frame.latest_block_validator = frame.pro_tx_hash
    /\ LET text == str(frame.latest_block_height)
           environ == SetEnviron(SetEnviron(env, LAST_PRODUCED, text), LAST_SHOULD, text)
       IN  /\ env' = environ
           /\ bashrc' = WriteBashrc(WriteBashrc(bashrc, LAST_PRODUCED, text), LAST_SHOULD, text)
           /\ frame' = [frame EXCEPT
                  !.last_produce_block_height = get_env_variable(environ, LAST_PRODUCED),
                  !.last_should_produce_block_height = get_env_variable(environ, LAST_SHOULD),
                  !.produce_block_status = "OK"]
    /\ pc' = "report"
    /\ UNCHANGED <<chain, probes, pre, prev, writing, collectorVars>>

AuditSkip ==
    /\ pc = "audit"
    /\ \/ ~MayAudit(frame.in_quorum)
       \/ /\ frame.latest_block_validator # frame.pro_tx_hash
          /\ \/ ~QuorumStable(frame.changed_quorum, frame.changing_quorum)
             \/ ~SortsAfter(frame.latest_block_validator, frame.pro_tx_hash)
    /\ pc' = "report"
    /\ UNCHANGED <<chain, bashrc, env, frame, probes, pre, prev, writing, collectorVars>>

AuditSearchBranch ==
    /\ pc = "audit"
    /\ MayAudit(frame.in_quorum)
    /\ frame.latest_block_validator # frame.pro_tx_hash
    /\ QuorumStable(frame.changed_quorum, frame.changing_quorum)
    /\ SortsAfter(frame.latest_block_validator, frame.pro_tx_hash)
    /\ LET search_start ==
               SearchStart(frame.latest_block_height,
                           index(validators_in_quorum_of(frame), frame.latest_block_validator),
                           index(validators_in_quorum_of(frame), frame.pro_tx_hash))
           search_end == SearchEnd(frame.latest_block_height)
           should == get_env_variable(env, LAST_SHOULD)
       IN  IF SkipSearch(should, search_start)
           THEN /\ frame' = [frame EXCEPT
                       !.search_start = search_start,
                       !.search_end = search_end,
                       !.last_should_produce_block_height = should,
                       !.produce_block_status =
                           ExistingStatus(frame.last_produce_block_height, should)]
                /\ pc' = "report"
           ELSE /\ frame' = [frame EXCEPT
                       !.search_start = search_start,
                       !.search_end = search_end,
                       !.last_should_produce_block_height = should,
                       !.found_block = FALSE,
                       !.left = search_start,
                       !.right = search_end]
                /\ pc' = "search"
    /\ UNCHANGED <<chain, bashrc, env, probes, pre, prev, writing, collectorVars>>

\* Mutant of Mid: the heights are probed one after the other.
MidIsLeft(left, right) == left

\* mid of the binary search.
Mid(left, right) == (left + right) \div 2

\* Mutant of MoveUp: the comparison turned round.
MoveUpWhenAbove(result_validator, pro_tx_hash) == StrLess(pro_tx_hash, result_validator)

\* The comparison that moves the window up.
MoveUp(result_validator, pro_tx_hash) == StrLess(result_validator, pro_tx_hash)

\* Mutant of FoundBlock: any answer ends the search as found.
FoundBlockAnyAnswer(result_validator, pro_tx_hash) == result_validator # <<>>

\* Mutant of FoundBlock: the probed proposer is compared with the hash as
\* dashmate printed it.
FoundBlockRawHash(result_validator, pro_tx_hash) == result_validator = PRO_TX_HASH_RAW

\* The test that ends the search: the probed proposer is pro_tx_hash.
FoundBlock(result_validator, pro_tx_hash) == result_validator = pro_tx_hash

\* Mutant of NotFoundStatus: a search that found nothing reports NO_DATA.
NotFoundStatusNoData(found_block, produce_block_status) ==
    IF ~found_block THEN "NO_DATA" ELSE produce_block_status

\* Mutant of NotFoundStatus: the status is left as it was.
NotFoundStatusKept(found_block, produce_block_status) == produce_block_status

\* "if not found_block": the status after the loop.
NotFoundStatus(found_block, produce_block_status) ==
    IF ~found_block THEN "ERROR" ELSE produce_block_status

\* One iteration of the binary search loop: the height mid is queried, the
\* last-should height is persisted, and the block is found or the window moves.
Probe ==
    /\ pc = "search"
    /\ frame.left <= frame.right
    /\ LET mid == Mid(frame.left, frame.right)
       IN  \E output \in BlockProposerOutputs(mid) :
             LET result_validator == upper(output)
                 environ == SetEnviron(env, LAST_SHOULD, str(mid))
                 lines == WriteBashrc(bashrc, LAST_SHOULD, str(mid))
             IN  /\ probes' = Append(probes, [height |-> mid, result |-> result_validator])
                 /\ IF FoundBlock(result_validator, frame.pro_tx_hash)
                    THEN /\ env' = SetEnviron(environ, LAST_PRODUCED, str(mid))
                         /\ bashrc' = WriteBashrc(lines, LAST_PRODUCED, str(mid))
                         /\ frame' = [frame EXCEPT
                                !.last_should_produce_block_height = Some(mid),
                                !.last_produce_block_height = Some(mid),
                                !.found_block = TRUE,
                                !.produce_block_status = "OK"]
                         /\ pc' = "report"
                    ELSE /\ env' = environ
                         /\ bashrc' = lines
                         /\ frame' = [frame EXCEPT
                                !.last_should_produce_block_height = Some(mid),
                                !.left = IF MoveUp(result_validator, frame.pro_tx_hash)
                                         THEN mid + 1 ELSE @,
                                !.right = IF MoveUp(result_validator, frame.pro_tx_hash)
                                          THEN @ ELSE mid - 1]
                         /\ pc' = "search"
    /\ UNCHANGED <<chain, pre, prev, writing, collectorVars>>

\* The query of height mid fails: run_command returns None and the call of
\* upper() on it raises, which ends the invocation before anything of this
\* iteration is persisted and before any report.
ProbeFails ==
    /\ pc = "search"
    /\ frame.left <= frame.right
    /\ pc' = "crashed"
    /\ UNCHANGED <<chain, bashrc, env, frame, probes, pre, prev, writing, collectorVars>>

\* The loop ends with the window empty: the block was not found.
SearchExhausted ==
    /\ pc = "search"
    /\ frame.left > frame.right
    /\ frame' = [frame EXCEPT
           !.produce_block_status = NotFoundStatus(frame.found_block, @)]
    /\ pc' = "report"
    /\ UNCHANGED <<chain, bashrc, env, probes, pre, prev, writing, collectorVars>>

\* Steps 10 and 11: the payload, without its None values, is posted.
Payload(f) ==
    LET always == [ proTxHash |-> f.pro_tx_hash,
                    validatorsInQuorum |-> validators_in_quorum_of(f),
                    latestBlockHeight |-> f.latest_block_height,
                    latestBlockValidator |-> f.latest_block_validator,
                    produceBlockStatus |-> f.produce_block_status ]
        quorum == IF f.in_quorum = "None" THEN <<>>
                  ELSE [inQuorum |-> f.in_quorum]
        produced == IF f.last_produce_block_height = None THEN <<>>
                    ELSE [lastProduceBlockHeight |-> f.last_produce_block_height[1]]
        should == IF f.last_should_produce_block_height = None THEN <<>>
                  ELSE [lastShouldProduceBlockHeight |->
                            f.last_should_produce_block_height[1]]
    IN  always @@ quorum @@ produced @@ should

\* The report of the invocation is Payload(frame).
Report ==
    /\ pc = "report"
    /\ pc' = "done"
    /\ UNCHANGED <<chain, bashrc, env, frame, probes, pre, prev, writing, collectorVars>>

\* The exit status of the process: main() returning ends the script with
\* status 0, an exception that nothing catches ends it with status 1.
ExitStatus(at) == IF at = "crashed" THEN 1 ELSE 0

\* The process ends; the next invocation is a fresh process.
Exit ==
    /\ pc \in {"done", "crashed", "aborted", "rejected"}
    /\ pc' = "idle"
    /\ env' = <<>>
    /\ frame' = NoFrame
    /\ probes' = <<>>
    /\ pre' = NoPre
    /\ UNCHANGED <<chain, bashrc, prev, writing, collectorVars>>

\* Exit, with the invocation that ends remembered in prev.
ExitRemembered ==
    /\ pc \in {"done", "crashed", "aborted", "rejected"}
    /\ pc' = "idle"
    /\ env' = <<>>
    /\ frame' = NoFrame
    /\ probes' = <<>>
    /\ pre' = NoPre
    /\ prev' = IF pc = "done"
               THEN [fetched |-> frame.fetched,
                     latest_block_validator |-> frame.latest_block_validator,
                     changed_quorum |-> frame.changed_quorum,
                     answered |-> \A i \in DOMAIN probes :
                                     probes[i].result = upper(ProposerAt(probes[i].height)),
                     status |-> frame.produce_block_status]
               ELSE NoPrev
    /\ UNCHANGED <<chain, bashrc, writing, collectorVars>>

Next ==
    \/ NewBlock
    \/ Begin
    \/ BeginFails
    \/ MissingProTxHash
    \/ BeginCrashes
    \/ Quorum
    \/ AuditJustProduced
    \/ AuditSkip
    \/ AuditSearchBranch
    \/ Probe
    \/ ProbeFails
    \/ SearchExhausted
    \/ Report
    \/ Exit

Spec == Init /\ [][Next]_vars

\* Invocations on a chain that does not grow, each remembered for the
\* comparison with the next.
NextTwice ==
    \/ Begin
    \/ BeginFails
    \/ MissingProTxHash
    \/ BeginCrashes
    \/ Quorum
    \/ AuditJustProduced
    \/ AuditSkip
    \/ AuditSearchBranch
    \/ Probe
    \/ ProbeFails
    \/ SearchExhausted
    \/ Report
    \/ ExitRemembered

SpecTwice == Init /\ [][NextTwice]_vars

\* ------------------------------------------------- the settings, on their own

\* Highest height written in the specification of the settings.
MaxStored == 2

\* Files the settings are written to: none, an empty one, one that holds
\* the quorum hash.
StoreFiles ==
    { MissingFile, File(<<>>), File(<<ExportLine(QUORUM_HASH, EmptyListDigest)>>) }

\* pre holds the heights written so far.
InitStore ==
    /\ chain = <<>>
    /\ bashrc \in StoreFiles
    /\ env = <<>>
    /\ pc = "store"
    /\ frame = NoFrame
    /\ probes = <<>>
    /\ pre = NoPre
    /\ prev = NoPrev
    /\ writing = NoWrite
    /\ CollectorStarted

\* set_env_variable(name, value) for one of the two heights.
SetEnvVariable ==
    /\ pc \in {"store", "loaded"}
    /\ \E value \in 0..MaxStored :
         \/ /\ env' = SetEnviron(env, LAST_PRODUCED, str(value))
            /\ bashrc' = WriteBashrc(bashrc, LAST_PRODUCED, str(value))
            /\ pre' = [pre EXCEPT !.produced = Some(value)]
         \/ /\ env' = SetEnviron(env, LAST_SHOULD, str(value))
            /\ bashrc' = WriteBashrc(bashrc, LAST_SHOULD, str(value))
            /\ pre' = [pre EXCEPT !.should = Some(value)]
    /\ pc' = "store"
    /\ UNCHANGED <<chain, frame, probes, prev, writing, collectorVars>>

\* A later invocation: a fresh process runs load_bashrc_variables.
LoadBashrcVariables ==
    /\ pc = "store"
    /\ ~LoadRaises(bashrc)
    /\ env' = load_bashrc_variables(bashrc)
    /\ pc' = "loaded"
    /\ UNCHANGED <<chain, bashrc, frame, probes, pre, prev, writing, collectorVars>>

NextStore ==
    \/ SetEnvVariable
    \/ LoadBashrcVariables

SpecStore == InitStore /\ [][NextStore]_vars

\* ------------------------------------------------- a damaged ~/.bashrc

\* Texts a damaged file can hold for a height: "2" (a height), nothing, "-2",
\* "x2", superscript two, and "2=2".
StoredTexts ==
    { <<50>>, <<>>, <<45, 50>>, <<120, 50>>, <<SUPERSCRIPT_TWO>>, <<50, 61, 50>> }

\* The lines of the two heights: each missing or holding one of StoredTexts.
StoredLines(name) == {<<>>} \cup { <<ExportLine(name, text)>> : text \in StoredTexts }

DamagedFiles ==
    {UnreadableFile}
        \cup { File(produced \o should) :
                  produced \in StoredLines(LAST_PRODUCED), should \in StoredLines(LAST_SHOULD) }

\* The agent is run on a chain that does not grow, starting from a
\* ~/.bashrc that may be damaged; every query is answered.
InitDamaged ==
    /\ chain \in [1..GenesisLen -> Proposers]
    /\ bashrc \in DamagedFiles
    /\ env = <<>>
    /\ pc = "idle"
    /\ frame = NoFrame
    /\ probes = <<>>
    /\ pre = NoPre
    /\ prev = NoPrev
    /\ writing = NoWrite
    /\ CollectorStarted

NextDamaged ==
    \/ Begin
    \/ StateReadCrashes
    \/ Quorum
    \/ AuditJustProduced
    \/ AuditSkip
    \/ AuditSearchBranch
    \/ Probe
    \/ SearchExhausted
    \/ Report
    \/ Exit

SpecDamaged == InitDamaged /\ [][NextDamaged]_vars

\* ------------------------------------- set_env_variable, one file operation at a time

\* ~/.bashrc exists; writing holds the call of set_env_variable that has the
\* file open for writing: the setting, the lines it read and the lines it writes.
InitWrite ==
    /\ chain = <<>>
    /\ bashrc \in { file \in StoreFiles : file.state = "file" }
    /\ env = <<>>
    /\ pc = "store"
    /\ frame = NoFrame
    /\ probes = <<>>
    /\ pre = NoPre
    /\ prev = NoPrev
    /\ writing = NoWrite
    /\ CollectorStarted

\* set_env_variable for a setting the file has no line of: the file is
\* opened with "a" and the line is added at its end.
AppendLine ==
    /\ pc = "store"
    /\ \E name \in {LAST_PRODUCED, LAST_SHOULD}, value \in 0..MaxStored :
         /\ \A i \in DOMAIN bashrc.lines : bashrc.lines[i].key # name
         /\ env' = SetEnviron(env, name, str(value))
         /\ bashrc' = WriteBashrc(bashrc, name, str(value))
    /\ UNCHANGED <<chain, pc, frame, probes, pre, prev, writing, collectorVars>>

\* set_env_variable for a setting the file has a line of: the lines are
\* read and the file is opened with "w", which empties it.
OpenForWrite ==
    /\ pc = "store"
    /\ \E name \in {LAST_PRODUCED, LAST_SHOULD}, value \in 0..MaxStored :
         /\ \E i \in DOMAIN bashrc.lines : bashrc.lines[i].key = name
         /\ env' = SetEnviron(env, name, str(value))
         /\ writing' = [ name |-> name,
                         old |-> bashrc.lines,
                         new |-> WriteLines(bashrc.lines, name, str(value)) ]
    /\ bashrc' = File(<<>>)
    /\ pc' = "writing"
    /\ UNCHANGED <<chain, frame, probes, pre, prev, collectorVars>>

\* The next line of the loop of lines 120-124 reaches the file.
WriteLine ==
    /\ pc = "writing"
    /\ Len(bashrc.lines) < Len(writing.new)
    /\ bashrc' = File(Append(bashrc.lines, writing.new[Len(bashrc.lines) + 1]))
    /\ UNCHANGED <<chain, env, pc, frame, probes, pre, prev, writing, collectorVars>>

\* The with block ends after the last line: the file is closed.
CloseFile ==
    /\ pc = "writing"
    /\ Len(bashrc.lines) = Len(writing.new)
    /\ pc' = "store"
    /\ writing' = NoWrite
    /\ UNCHANGED <<chain, bashrc, env, frame, probes, pre, prev, collectorVars>>

\* The process is killed (or the machine stops) while the file is open for
\* writing.
Killed ==
    /\ pc = "writing"
    /\ pc' = "killed"
    /\ UNCHANGED <<chain, bashrc, env, frame, probes, pre, prev, writing, collectorVars>>

\* The agent is run again after it was killed.
RunAgain ==
    /\ pc = "killed"
    /\ pc' = "store"
    /\ env' = <<>>
    /\ writing' = NoWrite
    /\ UNCHANGED <<chain, bashrc, frame, probes, pre, prev, collectorVars>>

NextWrite ==
    \/ AppendLine
    \/ OpenForWrite
    \/ WriteLine
    \/ CloseFile
    \/ Killed
    \/ RunAgain

SpecWrite == InitWrite /\ [][NextWrite]_vars

\* ------------------------------------------------------- collector: heartbeat

\* Blocks a stored list keeps; sorted_blocks[:1000] keeps 1000.
BlocksKept == 3

\* Highest block height a heartbeat reports.
MaxBlockHeight == 4

\* An entry of "blocks": its height and what else the agent reports of it.
Block(height, hash) == [height |-> height, hash |-> hash]

\* {block['height']: block for block in combined_blocks}.values(): one block
\* for each height, in the order the heights first occur, and for each
\* height the last block that has it.
unique_blocks(combined_blocks) ==
    LET first(i) == \A j \in 1..(i - 1) :
                       combined_blocks[j].height # combined_blocks[i].height
        last(i) == \A j \in (i + 1)..Len(combined_blocks) :
                      combined_blocks[j].height # combined_blocks[i].height
        keys == SelectSeq([i \in DOMAIN combined_blocks |-> i], first)
    IN  [k \in DOMAIN keys |->
            combined_blocks[CHOOSE i \in DOMAIN combined_blocks :
                               /\ combined_blocks[i].height = combined_blocks[keys[k]].height
                               /\ last(i)]]

\* sorted(blocks, key=height, reverse=True): descending, blocks of the same
\* height in the order they had.
RECURSIVE sorted_descending(_)
sorted_descending(blocks) ==
    IF blocks = <<>> THEN <<>>
    ELSE LET rest == sorted_descending(Tail(blocks))
             above == Cardinality({i \in DOMAIN rest : rest[i].height > Head(blocks).height})
         IN  SubSeq(rest, 1, above) \o <<Head(blocks)>> \o SubSeq(rest, above + 1, Len(rest))

\* Mutant of StoredBlocks: the blocks are not sorted.
StoredBlocksUnsorted(existing_blocks, new_blocks) ==
    LET unique == unique_blocks(existing_blocks \o new_blocks)
    IN  SubSeq(unique, 1, IF Len(unique) < BlocksKept THEN Len(unique) ELSE BlocksKept)

\* Lines 113-124: the blocks stored for a server.
StoredBlocks(existing_blocks, new_blocks) ==
    LET combined_blocks == existing_blocks \o new_blocks
        sorted_blocks == sorted_descending(unique_blocks(combined_blocks))
    IN  SubSeq(sorted_blocks, 1,
               IF Len(sorted_blocks) < BlocksKept THEN Len(sorted_blocks) ELSE BlocksKept)

\* Lines 110-135: the dict that is stored for the server, made from the
\* body of the request and the record the map holds.
StoredRecord(data, existing_data) ==
    LET new_validators_in_quorum == Get(data.validatorsInQuorum, <<>>)
        existing_validators_in_quorum == Get(existing_data.validatorsInQuorum, <<>>)
    IN  [data EXCEPT
           !.blocks = Some(StoredBlocks(Get(existing_data.blocks, <<>>),
                                        Get(data.blocks, <<>>))),
           !.prevValidatorsInQuorum =
               IF /\ new_validators_in_quorum # <<>>
                  /\ new_validators_in_quorum # existing_validators_in_quorum
               THEN Some(existing_validators_in_quorum) ELSE @,
           !.validatorsInQuorum =
               IF new_validators_in_quorum # <<>>
               THEN Some(new_validators_in_quorum) ELSE @]

\* heartbeat_data.get(server_name, {})
ExistingData(server_name) ==
    IF server_name \in DOMAIN heartbeat_data THEN heartbeat_data[server_name] ELSE NoRecord

\* The handler of POST /heartbeat for a body with a server name, the save
\* succeeding: the record is put into the map and the map is written to the
\* temporary file, which replaces the heartbeat file. The time of the
\* report, which the handler adds to the record, is left out.
Heartbeat(data) ==
    /\ data.serverName # ""
    /\ heartbeat_data' =
           Put(heartbeat_data, data.serverName,
               StoredRecord(data, ExistingData(data.serverName)))
    /\ heartbeat_file' = JsonFile(heartbeat_data')
    /\ temp_file' = NoFile
    /\ response' = Answer(200, data)
    /\ UNCHANGED <<requests, agentVars>>

\* The same, the save failing (the temporary file cannot be opened or
\* written): save_to_file removes what there is of the temporary file and
\* the handler answers 500.
HeartbeatSaveFails(data) ==
    /\ data.serverName # ""
    /\ heartbeat_data' =
           Put(heartbeat_data, data.serverName,
               StoredRecord(data, ExistingData(data.serverName)))
    /\ temp_file' = NoFile
    /\ response' = Answer(500, data)
    /\ UNCHANGED <<heartbeat_file, requests, agentVars>>

\* A body without a server name is answered 400.
HeartbeatInvalid ==
    /\ response' = Answer(400, NoRecord)
    /\ UNCHANGED <<heartbeat_data, heartbeat_file, temp_file, requests, agentVars>>

\* The handler of GET /: the map is replaced by what the file holds.
DisplayValidators ==
    /\ heartbeat_data' = load_from_file(heartbeat_file)
    /\ response' = Answer(200, NoRecord)
    /\ UNCHANGED <<heartbeat_file, temp_file, requests, agentVars>>

\* The collector process is started again: heartbeat_data = {}.
Restart ==
    /\ heartbeat_data' = <<>>
    /\ response' = Answer(0, NoRecord)
    /\ UNCHANGED <<heartbeat_file, temp_file, requests, agentVars>>

\* The agent has not run.
AgentIdle ==
    /\ chain = <<>>
    /\ bashrc = File(<<>>)
    /\ env = <<>>
    /\ pc = "idle"
    /\ frame = NoFrame
    /\ probes = <<>>
    /\ pre = NoPre
    /\ prev = NoPrev
    /\ writing = NoWrite

\* Block lists a heartbeat reports: no block, one block or two blocks, of
\* heights up to MaxBlockHeight, each with one of two hashes.
ReportedBlocks ==
    LET blocks == { Block(height, hash) : height \in 1..MaxBlockHeight, hash \in {"x", "y"} }
    IN  {<<>>} \cup { <<block>> : block \in blocks }
               \cup { <<first, second>> : first \in blocks, second \in blocks }

\* Quorum lists a heartbeat reports.
ReportedQuorums == { <<>>, <<"A", "B">>, <<"B", "C">> }

\* Heartbeats of one server: some report blocks, the others a quorum list
\* or no list.
RecordBodies ==
    { [NoRecord EXCEPT !.serverName = "s1", !.blocks = Some(blocks)] :
          blocks \in ReportedBlocks }
      \cup { [NoRecord EXCEPT !.serverName = "s1", !.validatorsInQuorum = Some(list)] :
                 list \in ReportedQuorums }
      \cup { [NoRecord EXCEPT !.serverName = "s1"] }

InitRecords == AgentIdle /\ CollectorStarted

NextRecords == \E data \in RecordBodies : Heartbeat(data)

SpecRecords == InitRecords /\ [][NextRecords]_vars

\* ------------------------------------------------------------- properties

\* The invocation has sent its report.
CycleEnded == pc = "done"

\* The cycle reached the decision between skipping and searching.
ReachedSearchDecision ==
    /\ frame.in_quorum = "True"
    /\ frame.latest_block_validator # frame.pro_tx_hash
    /\ ~frame.changed_quorum
    /\ ~frame.changing_quorum
    /\ StrLess(frame.pro_tx_hash, frame.latest_block_validator)

StateUnchanged ==
    /\ Persisted(LAST_PRODUCED) = pre.produced
    /\ Persisted(LAST_SHOULD) = pre.should

\* C1: a cycle in quorum that reads self as the proposer of the latest block ends with
\* the persisted last-produced and last-should heights both equal to the
\* latest height, status OK, and no probe issued.
C1_JustProduced ==
    (/\ CycleEnded
     /\ frame.in_quorum = "True"
     /\ frame.latest_block_validator = upper(PRO_TX_HASH_RAW))
    => /\ Persisted(LAST_PRODUCED) = Some(frame.latest_block_height)
       /\ Persisted(LAST_SHOULD) = Some(frame.latest_block_height)
       /\ Payload(frame).produceBlockStatus = "OK"
       /\ Payload(frame).lastProduceBlockHeight = frame.latest_block_height
       /\ Payload(frame).lastShouldProduceBlockHeight = frame.latest_block_height
       /\ probes = <<>>

C1_Witness ==
    /\ CycleEnded
    /\ frame.in_quorum = "True"
    /\ frame.latest_block_validator = upper(PRO_TX_HASH_RAW)
    /\ pre.produced # None
    /\ pre.produced # pre.should
    /\ Persisted(LAST_PRODUCED) = Some(frame.latest_block_height)

\* C2: a cycle that starts with the last-produced height unset issues no
\* binary-search probe.
C2_NoProbeWithoutHistory == pre.produced = None => probes = <<>>

\* C3: while the last-produced height is unset the reported status is
\* NO_DATA (never ERROR).
C3_NoDataWhileUnset ==
    (CycleEnded /\ Persisted(LAST_PRODUCED) = None)
    => Payload(frame).produceBlockStatus = "NO_DATA"

\* C4: an invocation that follows another computes changed_quorum true
\* exactly when the member list it fetched differs from the list whose hash
\* the previous invocation persisted.
C4_ChangedIffListDiffers ==
    [][(pc = "quorum" /\ pc' = "audit" /\ QUORUM_HASH \in DOMAIN env)
       => (frame'.changed_quorum <=>
               env[QUORUM_HASH] # compute_hash(validators_in_quorum_of(frame')))]_vars

\* C5: a cycle whose changed_quorum is true issues no probe.
C5_NoProbeWhenQuorumChanged == frame.changed_quorum => probes = <<>>

C5_Witness ==
    /\ CycleEnded
    /\ frame.changed_quorum
    /\ frame.in_quorum = "True"
    /\ frame.latest_block_validator # frame.pro_tx_hash
    /\ ~frame.changing_quorum
    /\ StrLess(frame.pro_tx_hash, frame.latest_block_validator)
    /\ index(validators_in_quorum_of(frame), frame.pro_tx_hash)
         < index(validators_in_quorum_of(frame), frame.latest_block_validator)
    /\ pre.should = None
    /\ probes = <<>>

\* The invocation has evaluated membership.
QuorumEvaluated == frame.fetched # 0

\* The output the invocation's quorum fetch got.
FetchedOutput == active_validators_of(frame)

\* Self, upper-cased, is one of the fetched members, upper-cased.
FetchedSelf ==
    \E i \in DOMAIN FetchedOutput :
        upper(strip_quotes(FetchedOutput[i])) = upper(PRO_TX_HASH_RAW)

\* C6: a failed fetch or one of fewer than 67 members gives in_quorum None
\* (never False); a fetch of at least 67 members gives True exactly when the
\* upper-cased self identifier is one of the upper-cased members.
C6_Membership ==
    QuorumEvaluated
    => IF Len(FetchedOutput) < 67
       THEN frame.in_quorum = "None"
       ELSE frame.in_quorum =
                (IF FetchedSelf THEN "True" ELSE "False")

\* A fetch of 66 members that include self, and a fetch that lists self in
\* lower case.
C6_WitnessTooSmall ==
    /\ QuorumEvaluated
    /\ Len(FetchedOutput) = 66
    /\ FetchedSelf
    /\ frame.in_quorum = "None"

C6_WitnessLowerCase ==
    /\ QuorumEvaluated
    /\ Len(FetchedOutput) >= 67
    /\ \E i \in DOMAIN FetchedOutput :
           /\ strip_quotes(FetchedOutput[i]) # upper(PRO_TX_HASH_RAW)
           /\ upper(strip_quotes(FetchedOutput[i])) = upper(PRO_TX_HASH_RAW)
    /\ frame.in_quorum = "True"

\* C7: a cycle whose in_quorum is False or None leaves the persisted
\* last-produced and last-should heights as they were, issues no probe and
\* reports the status derived from the prior state.
C7_NoAuditOutsideQuorum ==
    (CycleEnded /\ frame.in_quorum # "True")
    => /\ StateUnchanged
       /\ probes = <<>>
       /\ Payload(frame).produceBlockStatus = StatusFromState(pre.produced, pre.should)

\* Membership unknown while the latest block was proposed by self.
C7_Witness ==
    /\ CycleEnded
    /\ frame.in_quorum = "None"
    /\ frame.latest_block_validator = frame.pro_tx_hash
    /\ pre.produced # Some(frame.latest_block_height)
    /\ StateUnchanged

\* C8 as stated: at the search decision a persisted last-should height
\* greater than or equal to search_start skips the search.
C8_SkipWhenAtLeastStart ==
    (/\ CycleEnded
     /\ ReachedSearchDecision
     /\ pre.should # None
     /\ pre.should[1] >= frame.search_start)
    => /\ probes = <<>>
       /\ StateUnchanged
       /\ Payload(frame).produceBlockStatus =
              (IF pre.produced = pre.should THEN "OK" ELSE "ERROR")

\* C8 amended: at the search decision a persisted last-should height that is
\* non-zero and strictly greater than search_start skips the search: no
\* probe, state unchanged, status OK exactly when last-produced equals
\* last-should; a last-should height equal to search_start does not skip it.
C8_SkipWhenAboveStart ==
    /\ (/\ CycleEnded
        /\ ReachedSearchDecision
        /\ pre.should # None
        /\ pre.should[1] # 0
        /\ pre.should[1] > frame.search_start)
       => /\ probes = <<>>
          /\ StateUnchanged
          /\ Payload(frame).produceBlockStatus =
                 (IF pre.produced = pre.should THEN "OK" ELSE "ERROR")
    /\ (/\ CycleEnded
        /\ ReachedSearchDecision
        /\ pre.should = Some(frame.search_start)
        /\ frame.search_start <= frame.search_end)
       => probes # <<>>

C8_Witness ==
    /\ CycleEnded
    /\ ReachedSearchDecision
    /\ pre.should # None
    /\ pre.should[1] > frame.search_start
    /\ frame.search_start <= frame.search_end
    /\ pre.produced = pre.should
    /\ Payload(frame).produceBlockStatus = "OK"

\* C9: a probe whose proposer is self is the last probe of the search, and
\* the cycle ends with last-produced = last-should = the probed height and
\* status OK.
C9_FoundEndsSearch ==
    \A i \in DOMAIN probes :
        probes[i].result = upper(PRO_TX_HASH_RAW)
        => /\ i = Len(probes)
           /\ pc \in {"report", "done"}
           /\ Persisted(LAST_PRODUCED) = Some(probes[i].height)
           /\ Persisted(LAST_SHOULD) = Some(probes[i].height)
           /\ frame.produce_block_status = "OK"
           /\ CycleEnded =>
                  /\ Payload(frame).produceBlockStatus = "OK"
                  /\ Payload(frame).lastProduceBlockHeight = probes[i].height
                  /\ Payload(frame).lastShouldProduceBlockHeight = probes[i].height

\* Found at the second probe, with another height recorded before.
C9_Witness ==
    /\ CycleEnded
    /\ Len(probes) = 2
    /\ probes[2].result = upper(PRO_TX_HASH_RAW)
    /\ pre.produced # None
    /\ pre.produced # Some(probes[2].height)

\* C10: a search over a non-empty window that ends without a probe answered
\* by self ends the cycle with status ERROR, the last-produced height as at
\* the start of the cycle and the last-should height the last probed height.
C10_ExhaustedIsError ==
    (/\ CycleEnded
     /\ probes # <<>>
     /\ \A i \in DOMAIN probes : probes[i].result # upper(PRO_TX_HASH_RAW))
    => /\ Payload(frame).produceBlockStatus = "ERROR"
       /\ Persisted(LAST_PRODUCED) = pre.produced
       /\ Persisted(LAST_SHOULD) = Some(probes[Len(probes)].height)
       /\ Payload(frame).lastShouldProduceBlockHeight = probes[Len(probes)].height

\* Exhausted after two probes in a cycle that started with status OK.
C10_Witness ==
    /\ CycleEnded
    /\ Len(probes) = 2
    /\ \A i \in DOMAIN probes : probes[i].result # upper(PRO_TX_HASH_RAW)
    /\ pre.produced # None
    /\ pre.produced = pre.should
    /\ Payload(frame).produceBlockStatus = "ERROR"

\* The cycle entered the binary search (the loop of lines 413-440 was reached).
SearchEntered ==
    /\ ReachedSearchDecision
    /\ ~SkipSearch(pre.should, frame.search_start)

\* Heights of the search window.
Window == frame.search_start..frame.search_end

\* Every probe of the cycle was answered with the proposer of its height.
ProbesAnswered ==
    \A i \in DOMAIN probes :
        /\ probes[i].height \in DOMAIN chain
        /\ probes[i].result = upper(chain[probes[i].height])

\* Heights of the window whose block self proposed.
SelfHeights == { h \in Window \cap DOMAIN chain : upper(chain[h]) = upper(PRO_TX_HASH_RAW) }

RECURSIVE CeilLog2(_)
CeilLog2(n) == IF n <= 1 THEN 0 ELSE 1 + CeilLog2((n + 1) \div 2)

\* C11: a search over a window of existing heights in which self proposed
\* exactly one height h, every probe answered with the proposer of its
\* height, ends with last-produced = h and status OK after at most
\* ceil(log2(size of the window)) + 1 probes.
C11_SearchFindsSelf ==
    (/\ CycleEnded
     /\ SearchEntered
     /\ Window \subseteq DOMAIN chain
     /\ Cardinality(SelfHeights) = 1
     /\ ProbesAnswered)
    => /\ \A h \in SelfHeights : Persisted(LAST_PRODUCED) = Some(h)
       /\ Payload(frame).produceBlockStatus = "OK"
       /\ Len(probes) <= CeilLog2(Cardinality(Window)) + 1

\* C12: a search entered with search_start > search_end issues no probe,
\* leaves the persisted last-produced and last-should heights as they were
\* and ends the cycle with status ERROR.
C12_EmptyWindowIsError ==
    (/\ CycleEnded
     /\ SearchEntered
     /\ frame.search_start > frame.search_end)
    => /\ probes = <<>>
       /\ StateUnchanged
       /\ Payload(frame).produceBlockStatus = "ERROR"

\* An empty window in a cycle that started with status OK.
C12_Witness ==
    /\ CycleEnded
    /\ SearchEntered
    /\ frame.search_start > frame.search_end
    /\ pre.produced # None
    /\ pre.produced = pre.should
    /\ Payload(frame).produceBlockStatus = "ERROR"

\* This invocation read what the invocation before it read, on the same
\* chain, and every probe of both was answered with the proposer of its height.
SameInputsAsBefore ==
    /\ prev # NoPrev
    /\ prev.fetched = frame.fetched
    /\ prev.latest_block_validator = frame.latest_block_validator
    /\ prev.answered
    /\ \A i \in DOMAIN probes : probes[i].result = upper(ProposerAt(probes[i].height))

C14_RoundTrip ==
    pc = "loaded"
    => /\ get_env_variable(env, LAST_PRODUCED) = pre.produced
       /\ get_env_variable(env, LAST_SHOULD) = pre.should

\* The same for a ~/.bashrc that exists when the heights are written.
C14_RoundTripOfFile ==
    (pc = "loaded" /\ bashrc.state = "file")
    => /\ get_env_variable(env, LAST_PRODUCED) = pre.produced
       /\ get_env_variable(env, LAST_SHOULD) = pre.should

\* Height 0 written, rewritten and read back from a file.
C14_WitnessZero ==
    /\ pc = "loaded"
    /\ bashrc.state = "file"
    /\ pre.produced = Some(0)
    /\ pre.should = Some(MaxStored)
    /\ get_env_variable(env, LAST_PRODUCED) = Some(0)

\* C15: whenever the persisted last-produced height is set, it is a height
\* of the chain whose block self proposed.
C15_ProducedIsSelfProposed ==
    Persisted(LAST_PRODUCED) # None
    => /\ Persisted(LAST_PRODUCED)[1] \in DOMAIN chain
       /\ upper(chain[Persisted(LAST_PRODUCED)[1]]) = upper(PRO_TX_HASH_RAW)

\* The height was written by the search, below the latest height, over an
\* older last-produced height.
C15_Witness ==
    /\ CycleEnded
    /\ probes # <<>>
    /\ Persisted(LAST_PRODUCED) = Some(probes[Len(probes)].height)
    /\ probes[Len(probes)].height < frame.latest_block_height
    /\ pre.produced # None
    /\ pre.produced # Persisted(LAST_PRODUCED)
    /\ upper(chain[probes[Len(probes)].height]) = upper(PRO_TX_HASH_RAW)

\* C16: a write of the last-should height by a probe of a search over
\* heights of the chain, replacing the height an earlier probe of the same
\* search wrote (same cycle, same quorum), stores a height greater than or
\* equal to the one it replaces.
C16_ShouldNeverDecreases ==
    [][(/\ pc = "search"
        /\ probes # <<>>
        /\ frame.search_start >= 1
        /\ Persisted(LAST_SHOULD) # None)
       => /\ Persisted(LAST_SHOULD)' # None
          /\ Persisted(LAST_SHOULD)'[1] >= Persisted(LAST_SHOULD)[1]]_vars

\* C17: once a probe of the cycle got no proposer, the persisted
\* last-produced height is the one the cycle started with, and the persisted
\* last-should height is not the height of that probe (unless the cycle
\* started with it).
C17_FailedProbeNotStored ==
    \A i \in DOMAIN probes :
        probes[i].result = <<>>
        => /\ Persisted(LAST_PRODUCED) = pre.produced
           /\ pre.should # Some(probes[i].height)
                  => Persisted(LAST_SHOULD) # Some(probes[i].height)

\* C18: no invocation ends by an exception, whichever of the queries made
\* after the node status was read fail.
C18_NeverRaises == pc # "crashed"

\* The file cannot be read, or the text it holds for the setting is not a
\* non-negative integer in decimal digits.
Damaged(name) ==
    \/ bashrc.state = "unreadable"
    \/ \E i \in DOMAIN bashrc.lines :
           /\ bashrc.lines[i].key = name
           /\ \/ bashrc.lines[i].value = <<>>
              \/ \E j \in DOMAIN bashrc.lines[i].value :
                     bashrc.lines[i].value[j] \notin 48..57

\* C19: an invocation that finds the stored last-produced or last-should
\* height damaged does not end by an exception, and after it read the
\* stored state (the file is as it was at the start) it holds the damaged
\* height as unset, with status NO_DATA when last-produced is the damaged one.
C19_DamagedIsUnset ==
    /\ pc # "crashed"
    /\ pc = "quorum"
       => /\ Damaged(LAST_PRODUCED)
             => /\ frame.last_produce_block_height = None
                /\ frame.produce_block_status = "NO_DATA"
          /\ Damaged(LAST_SHOULD) => frame.last_should_produce_block_height = None

\* The same, for a file that can be read and holds no digit character other
\* than the decimal digits.
C19_DamagedTextIsUnset ==
    (/\ bashrc.state = "file"
     /\ \A i \in DOMAIN bashrc.lines :
            \A j \in DOMAIN bashrc.lines[i].value :
                bashrc.lines[i].value[j] # SUPERSCRIPT_TWO)
    => C19_DamagedIsUnset

\* A damaged last-produced height was read as unset.
C19_Witness ==
    /\ pc = "quorum"
    /\ bashrc.state = "file"
    /\ Damaged(LAST_PRODUCED)
    /\ frame.last_produce_block_height = None
    /\ frame.produce_block_status = "NO_DATA"

\* The invocation that found no proTxHash in the node status leaves
\* ~/.bashrc as it was and ends without reaching the report.
RejectedTouchesNothing ==
    /\ bashrc' = bashrc
    /\ frame' = NoFrame
    /\ pc' \in {"rejected", "idle"}

\* C20: an invocation that finds no proTxHash in the node status ends with a
\* non-zero exit status, has changed nothing in ~/.bashrc and sends no report.
C20_MissingProTxHashAborts ==
    [][(pc = "rejected" \/ pc' = "rejected")
          => (RejectedTouchesNothing /\ ExitStatus("rejected") # 0)]_vars

\* The same without the exit status.
C20_MissingProTxHashStops ==
    [][(pc = "rejected" \/ pc' = "rejected") => RejectedTouchesNothing]_vars

\* An invocation has found no proTxHash, with heights stored earlier.
C20_Witness ==
    /\ pc = "rejected"
    /\ Persisted(LAST_SHOULD) # None

\* C21: a process killed during a write of set_env_variable leaves
\* ~/.bashrc holding all the lines it had before the write or all the lines
\* the write was to leave, never a part of them.
C21_WriteIsAtomic == pc = "killed" => bashrc.lines \in {writing.old, writing.new}

\* Killed after the last line reached the file.
C21_Witness ==
    /\ pc = "killed"
    /\ Len(writing.old) >= 2
    /\ writing.old # writing.new
    /\ bashrc.lines = writing.new

\* C22: every report holds produceBlockStatus with one of OK, ERROR and
\* NO_DATA, and holds inQuorum and validatorsInQuorum, also when membership
\* is unknown.
C22_ReportFields ==
    CycleEnded
    => /\ "produceBlockStatus" \in DOMAIN Payload(frame)
       /\ Payload(frame).produceBlockStatus \in {"OK", "ERROR", "NO_DATA"}
       /\ "inQuorum" \in DOMAIN Payload(frame)
       /\ "validatorsInQuorum" \in DOMAIN Payload(frame)

\* The same, with inQuorum held exactly when membership is known.
C22_ReportFieldsWhenKnown ==
    CycleEnded
    => /\ "produceBlockStatus" \in DOMAIN Payload(frame)
       /\ Payload(frame).produceBlockStatus \in {"OK", "ERROR", "NO_DATA"}
       /\ "inQuorum" \in DOMAIN Payload(frame) <=> frame.in_quorum # "None"
       /\ "validatorsInQuorum" \in DOMAIN Payload(frame)

\* A report of a cycle that found self outside the quorum.
C22_Witness ==
    /\ CycleEnded
    /\ frame.in_quorum = "False"
    /\ Payload(frame).inQuorum = "False"
    /\ Payload(frame).validatorsInQuorum # <<>>

\* The cycle took the branch that computes the search window.
WindowComputed == frame.search_end = SearchEnd(frame.latest_block_height)

\* The status of the cycle is the one of the skipped search, or the one of
\* a search whose probes are all heights of the window.
DecidedByAudit ==
    /\ WindowComputed
    /\ IF SkipSearch(pre.should, frame.search_start)
       THEN /\ probes = <<>>
            /\ Payload(frame).produceBlockStatus =
                   (IF pre.produced = pre.should THEN "OK" ELSE "ERROR")
       ELSE /\ \A i \in DOMAIN probes : probes[i].height \in Window
            /\ Payload(frame).produceBlockStatus =
                   (IF /\ probes # <<>>
                       /\ probes[Len(probes)].result = upper(PRO_TX_HASH_RAW)
                    THEN "OK" ELSE "ERROR")

\* C23: a cycle in quorum whose latest proposer is not self and sorts after
\* self, with changed_quorum false, gets its status from the skipped search
\* or from the binary search over the window; nothing else skips the audit.
C23_AuditedWhenStable ==
    (/\ CycleEnded
     /\ frame.in_quorum = "True"
     /\ frame.latest_block_validator # frame.pro_tx_hash
     /\ ~frame.changed_quorum
     /\ StrLess(frame.pro_tx_hash, frame.latest_block_validator))
    => DecidedByAudit

\* The same, for cycles whose changing_quorum is false as well.
C23_AuditedWhenNotChanging ==
    (CycleEnded /\ ReachedSearchDecision) => DecidedByAudit

\* Self at index 0 and the latest proposer at index 2: the search probes the
\* height self proposed and reports OK.
C23_Witness ==
    /\ CycleEnded
    /\ ReachedSearchDecision
    /\ DecidedByAudit
    /\ Len(probes) = 1
    /\ Payload(frame).produceBlockStatus = "OK"
    /\ Payload(frame).lastProduceBlockHeight = frame.search_start

\* 0-based positions of an identifier in the fetched member list, members
\* unquoted and upper-cased.
PositionsOf(id) ==
    { i \in 0..(Len(FetchedOutput) - 1) : upper(strip_quotes(FetchedOutput[i + 1])) = id }

\* C24: past the search decision, search_start is
\* (latest height - position of the latest proposer) + position of self and
\* search_end is latest height - 1, positions taken in the fetched list.
C24_SearchBounds ==
    (ReachedSearchDecision /\ pc \in {"search", "report", "done"})
    => /\ \E selfIndex \in PositionsOf(upper(PRO_TX_HASH_RAW)) :
              \E proposerIndex \in PositionsOf(frame.latest_block_validator) :
                  frame.search_start = (frame.latest_block_height - proposerIndex) + selfIndex
       /\ frame.search_end = frame.latest_block_height - 1

\* Self at position 4 and the latest proposer at position 5.
C24_Witness ==
    /\ ReachedSearchDecision
    /\ pc = "search"
    /\ 4 \in PositionsOf(upper(PRO_TX_HASH_RAW))
    /\ 5 \in PositionsOf(frame.latest_block_validator)
    /\ frame.search_start = frame.latest_block_height - 1
    /\ frame.search_end = frame.latest_block_height - 1

\* C25: from the first answered probe of a search on, whether the invocation
\* goes on, ends or is interrupted, the persisted last-should height is the
\* height of the last probe.
C25_ShouldIsLastProbe ==
    (pc \in {"search", "report", "done", "crashed"} /\ probes # <<>>)
    => Persisted(LAST_SHOULD) = Some(probes[Len(probes)].height)

\* Between two probes, after a probe that did not find self.
C25_Witness ==
    /\ pc = "search"
    /\ Len(probes) = 1
    /\ frame.left <= frame.right
    /\ probes[1].result # upper(PRO_TX_HASH_RAW)
    /\ pre.should # Some(probes[1].height)
    /\ Persisted(LAST_SHOULD) = Some(probes[1].height)

\* C26: a probe that does not end the search queried the height
\* floor((left + right) / 2), got a proposer other than self, and moved left
\* to that height + 1 when the proposer, in upper case, sorts below self in
\* upper case, and right to that height - 1 otherwise.
C26_WindowMoves ==
    [][(pc = "search" /\ pc' = "search")
       => LET mid == (frame.left + frame.right) \div 2
              probed == probes'[Len(probes')]
          IN  /\ Len(probes') = Len(probes) + 1
              /\ probed.height = mid
              /\ probed.result \in { upper(output) : output \in BlockProposerOutputs(mid) }
              /\ probed.result # upper(PRO_TX_HASH_RAW)
              /\ IF StrLess(probed.result, upper(PRO_TX_HASH_RAW))
                 THEN frame'.left = mid + 1 /\ frame'.right = frame.right
                 ELSE frame'.right = mid - 1 /\ frame'.left = frame.left]_vars

\* The window moved up at the first probe and down at the second.
C26_Witness ==
    /\ pc = "search"
    /\ Len(probes) = 2
    /\ StrLess(probes[1].result, upper(PRO_TX_HASH_RAW))
    /\ StrLess(upper(PRO_TX_HASH_RAW), probes[2].result)
    /\ frame.left = probes[1].height + 1
    /\ frame.right = probes[2].height - 1

\* C27: a cycle in quorum, with changed_quorum and changing_quorum false,
\* whose latest proposer sorts before self issues no probe, leaves the
\* persisted last-produced and last-should heights as they were and reports
\* the status derived from the state it started with.
C27_NothingWhenBefore ==
    (/\ CycleEnded
     /\ frame.in_quorum = "True"
     /\ ~frame.changed_quorum
     /\ ~frame.changing_quorum
     /\ StrLess(frame.latest_block_validator, upper(PRO_TX_HASH_RAW)))
    => /\ probes = <<>>
       /\ StateUnchanged
       /\ frame.last_produce_block_height = pre.produced
       /\ frame.last_should_produce_block_height = pre.should
       /\ Payload(frame).produceBlockStatus = StatusFromState(pre.produced, pre.should)

\* Such a cycle, started with status ERROR.
C27_Witness ==
    /\ CycleEnded
    /\ frame.in_quorum = "True"
    /\ ~frame.changed_quorum
    /\ ~frame.changing_quorum
    /\ StrLess(frame.latest_block_validator, upper(PRO_TX_HASH_RAW))
    /\ pre.produced # None
    /\ pre.produced # pre.should
    /\ Payload(frame).produceBlockStatus = "ERROR"

\* The quorum hash ~/.bashrc holds, as text; empty when it holds none.
StoredQuorumHash(file) ==
    IF QUORUM_HASH \in DOMAIN load_bashrc_variables(file)
    THEN load_bashrc_variables(file)[QUORUM_HASH]
    ELSE <<>>

\* C28: the step that evaluates the quorum, whatever the fetch gave, leaves
\* the hash of the member list it evaluated in ~/.bashrc, and computes
\* changed_quorum from the hash ~/.bashrc held before the step.
C28_HashPersistedAfterComparison ==
    [][(pc = "quorum" /\ pc' = "audit")
       => /\ StoredQuorumHash(bashrc') = compute_hash(validators_in_quorum_of(frame'))
          /\ frame'.changed_quorum =
                 ChangedQuorum(get_env_variable(load_bashrc_variables(bashrc), QUORUM_HASH),
                               compute_hash(validators_in_quorum_of(frame')))]_vars

\* The hash of the empty list persisted by a later invocation whose fetch
\* gave too few members.
C28_Witness ==
    /\ pc = "audit"
    /\ Len(FetchedOutput) = MIN_ACTIVE_VALIDATORS - 1
    /\ frame.in_quorum = "None"
    /\ pre.should # None
    /\ StoredQuorumHash(bashrc) = EmptyListDigest

RECURSIVE FloorLog2(_)
FloorLog2(n) == IF n <= 1 THEN 0 ELSE 1 + FloorLog2(n \div 2)

\* floor(log2(size of the window)) + 1, and 0 for an empty window.
ProbeBound ==
    IF frame.search_end < frame.search_start THEN 0
    ELSE FloorLog2(frame.search_end - frame.search_start + 1) + 1

\* C29: a search has issued at most floor(log2(search_end - search_start
\* + 1)) + 1 probes, whatever the probes answered, and once it has issued
\* that many it has found self or its window is empty, so that the loop ends.
C29_SearchTerminates ==
    (ReachedSearchDecision /\ pc \in {"search", "report", "done"})
    => /\ Len(probes) <= ProbeBound
       /\ (pc = "search" /\ Len(probes) = ProbeBound) => frame.left > frame.right
       /\ pc = "report" => (frame.found_block \/ probes = <<>> \/ frame.left > frame.right)

\* A window of three heights exhausted by the second probe.
C29_Witness ==
    /\ ReachedSearchDecision
    /\ pc = "search"
    /\ frame.search_end - frame.search_start + 1 = 3
    /\ Len(probes) = 2
    /\ frame.left > frame.right

\* The status the persisted heights stand for.
StatusOfPersisted ==
    IF Persisted(LAST_PRODUCED) = None THEN "NO_DATA"
    ELSE IF Persisted(LAST_PRODUCED) = Persisted(LAST_SHOULD) THEN "OK"
    ELSE "ERROR"

\* C30: the status a cycle reports is the one its persisted heights stand
\* for: NO_DATA exactly when last-produced is unset, OK exactly when it is
\* set and equal to last-should, ERROR otherwise.
C30_StatusAgreesWithState ==
    CycleEnded => Payload(frame).produceBlockStatus = StatusOfPersisted

\* The same, for cycles that started with the last-produced height set.
C30_StatusAgreesWhenSeeded ==
    (CycleEnded /\ pre.produced # None)
    => Payload(frame).produceBlockStatus = StatusOfPersisted

\* A search over an empty window reports ERROR while the persisted heights
\* are set and equal.
C30_Witness ==
    /\ CycleEnded
    /\ SearchEntered
    /\ ~frame.found_block
    /\ Persisted(LAST_PRODUCED) # None
    /\ Persisted(LAST_PRODUCED) = Persisted(LAST_SHOULD)
    /\ Payload(frame).produceBlockStatus = "ERROR"

\* C30 amended: a reported OK stands for a last-produced height that is set
\* and equal to last-should, a reported NO_DATA for a last-produced height
\* that is unset, and a reported ERROR for heights that differ (last-produced
\* unset included) or for a search of this cycle that did not find self.
C30_StatusImpliesState ==
    CycleEnded
    => /\ Payload(frame).produceBlockStatus = "OK"
          => /\ Persisted(LAST_PRODUCED) # None
             /\ Persisted(LAST_PRODUCED) = Persisted(LAST_SHOULD)
       /\ Payload(frame).produceBlockStatus = "NO_DATA"
          => Persisted(LAST_PRODUCED) = None
       /\ Payload(frame).produceBlockStatus = "ERROR"
          => \/ Persisted(LAST_PRODUCED) # Persisted(LAST_SHOULD)
             \/ SearchEntered /\ ~frame.found_block

\* A height of the payload: None when the payload does not hold the field.
PayloadProduced ==
    IF "lastProduceBlockHeight" \in DOMAIN Payload(frame)
    THEN Some(Payload(frame).lastProduceBlockHeight) ELSE None

PayloadShould ==
    IF "lastShouldProduceBlockHeight" \in DOMAIN Payload(frame)
    THEN Some(Payload(frame).lastShouldProduceBlockHeight) ELSE None

\* C31: the last-produced and last-should heights of a report are the ones
\* ~/.bashrc holds when the report is sent, whichever path the audit took.
C31_PayloadIsPersisted ==
    CycleEnded
    => /\ PayloadProduced = Persisted(LAST_PRODUCED)
       /\ PayloadShould = Persisted(LAST_SHOULD)

\* A search that found nothing, after a cycle that had stored other heights.
C31_Witness ==
    /\ CycleEnded
    /\ probes # <<>>
    /\ ~frame.found_block
    /\ pre.produced # None
    /\ pre.should # Some(probes[Len(probes)].height)
    /\ PayloadShould = Some(probes[Len(probes)].height)
    /\ PayloadProduced = pre.produced

\* C32: every height a search has probed lies in [search_start, search_end]
\* and below the latest height, and no two probes of a cycle have the same
\* height.
C32_ProbesInWindowOnce ==
    /\ \A i \in DOMAIN probes :
           /\ frame.search_start <= probes[i].height
           /\ probes[i].height <= frame.search_end
           /\ probes[i].height < frame.latest_block_height
    /\ \A i, j \in DOMAIN probes : i # j => probes[i].height # probes[j].height

\* Two probes, the second one at the upper end of the window.
C32_Witness ==
    /\ Len(probes) = 2
    /\ probes[2].height = frame.search_end
    /\ probes[2].height = frame.latest_block_height - 1
    /\ probes[1].height < probes[2].height

\* The latest proposer is no member of the fetched list, or is its last member.
LatestAbsentOrLast ==
    \/ PositionsOf(frame.latest_block_validator) = {}
    \/ Len(FetchedOutput) - 1 \in PositionsOf(frame.latest_block_validator)

\* C33: a cycle that passes the tests of the search branch has self and the
\* latest proposer in its member list; a cycle in quorum whose latest
\* proposer is absent from the list or is its last member has
\* changing_quorum set, computes no window and issues no probe.
C33_IndexLookupsNeverFail ==
    /\ ReachedSearchDecision
       => /\ PositionsOf(frame.pro_tx_hash) # {}
          /\ PositionsOf(frame.latest_block_validator) # {}
    /\ (/\ pc \in {"audit", "search", "report", "done"}
        /\ frame.in_quorum = "True"
        /\ LatestAbsentOrLast)
       => /\ frame.changing_quorum
          /\ ~WindowComputed
          /\ probes = <<>>

\* A latest proposer that sorts after self and is absent from the list.
C33_Witness ==
    /\ CycleEnded
    /\ frame.in_quorum = "True"
    /\ ~frame.changed_quorum
    /\ StrLess(frame.pro_tx_hash, frame.latest_block_validator)
    /\ PositionsOf(frame.latest_block_validator) = {}
    /\ frame.changing_quorum
    /\ probes = <<>>

\* Heartbeats of two servers, each reporting one of two quorum lists.
CollectorBodies ==
    { [NoRecord EXCEPT !.serverName = server_name, !.validatorsInQuorum = Some(list)] :
          server_name \in {"s1", "s2"}, list \in ReportedQuorums \ {<<>>} }

NextCollector ==
    \/ \E data \in CollectorBodies : Heartbeat(data)
    \/ HeartbeatInvalid
    \/ DisplayValidators
    \/ Restart

\* The collector serving heartbeats of two servers and dashboard reads, one
\* request at a time, and being started again; every save succeeds.
SpecCollector == InitRecords /\ [][NextCollector]_vars

NextSaves ==
    \/ NextCollector
    \/ \E data \in CollectorBodies : HeartbeatSaveFails(data)

\* The same, a save succeeding or failing.
SpecSaves == InitRecords /\ [][NextSaves]_vars

\* The server whose heartbeats a thread handles.
ServerOf(thread) == IF thread = 1 THEN "s1" ELSE "s2"

\* Line 138, a thread taking a heartbeat: the record is put into the map.
UpdateMap(thread, data) ==
    /\ requests[thread].pc = "idle"
    /\ data.serverName = ServerOf(thread)
    /\ heartbeat_data' =
           Put(heartbeat_data, data.serverName,
               StoredRecord(data, ExistingData(data.serverName)))
    /\ requests' = [requests EXCEPT ![thread] = [pc |-> "updated", data |-> data, fd |-> "closed"]]
    /\ UNCHANGED <<heartbeat_file, temp_file, response, agentVars>>

\* Line 64, open(temp_filename, 'w'): the temporary file is made, or the one
\* there is is emptied; the thread holds a descriptor of it. The "fd" of a
\* request says where the file it has open is now: "temp" under the
\* temporary name, "file" under the name of the heartbeat file, "unlinked"
\* under no name.
OpenTemp(thread) ==
    /\ requests[thread].pc = "updated"
    /\ temp_file' = EmptyFile
    /\ requests' = [requests EXCEPT ![thread].pc = "opened", ![thread].fd = "temp"]
    /\ UNCHANGED <<heartbeat_data, heartbeat_file, response, agentVars>>

\* Lines 65-67, json.dump(data, f) and the close: the JSON of the map as it
\* is now is written to the file the thread has open.
Dump(thread) ==
    /\ requests[thread].pc = "opened"
    /\ temp_file' = IF requests[thread].fd = "temp"
                    THEN JsonFile(heartbeat_data) ELSE temp_file
    /\ heartbeat_file' = IF requests[thread].fd = "file"
                         THEN JsonFile(heartbeat_data) ELSE heartbeat_file
    /\ requests' = [requests EXCEPT ![thread].pc = "dumped", ![thread].fd = "closed"]
    /\ UNCHANGED <<heartbeat_data, response, agentVars>>

\* Line 68, os.replace(temp_filename, filename), and the answer 200: the
\* temporary file takes the name of the heartbeat file, and the file that
\* had that name has none.
Rename(thread) ==
    /\ requests[thread].pc = "dumped"
    /\ temp_file # NoFile
    /\ heartbeat_file' = temp_file
    /\ temp_file' = NoFile
    /\ requests' =
           [t \in Threads |->
               IF t = thread THEN NoRequest
               ELSE [requests[t] EXCEPT
                       !.fd = IF @ = "temp" THEN "file"
                              ELSE IF @ = "file" THEN "unlinked" ELSE @]]
    /\ response' = Answer(200, requests[thread].data)
    /\ UNCHANGED <<heartbeat_data, agentVars>>

\* Line 68 with no file of the temporary name: os.replace raises
\* FileNotFoundError, lines 72-77 find no temporary file to remove and the
\* request is answered 500.
RenameFails(thread) ==
    /\ requests[thread].pc = "dumped"
    /\ temp_file = NoFile
    /\ requests' = [requests EXCEPT ![thread] = NoRequest]
    /\ response' = Answer(500, requests[thread].data)
    /\ UNCHANGED <<heartbeat_data, heartbeat_file, temp_file, agentVars>>

NextConcurrent ==
    \E thread \in Threads :
        \/ \E data \in CollectorBodies : UpdateMap(thread, data)
        \/ OpenTemp(thread)
        \/ Dump(thread)
        \/ Rename(thread)
        \/ RenameFails(thread)

\* Two threads of the collector, each handling the heartbeats of one server
\* step by step.
SpecConcurrent == InitRecords /\ [][NextConcurrent]_vars

\* The heights of a list of blocks.
HeightsOf(blocks) == { blocks[i].height : i \in DOMAIN blocks }

\* C34: a heartbeat that is accepted leaves the server a list of blocks of
\* pairwise distinct heights, in strictly descending order, of at most
\* BlocksKept entries (1000 in the code), which are the highest heights of
\* the stored and the reported blocks; a height that is reported is stored
\* with the block that was reported last.
C34_BlocksDistinctSortedCapped ==
    [][(response'.status = 200 /\ response'.data.serverName # "")
       => LET server_name == response'.data.serverName
              new == Get(response'.data.blocks, <<>>)
              old == Get(ExistingData(server_name).blocks, <<>>)
              stored == Get(heartbeat_data'[server_name].blocks, <<>>)
          IN  /\ \A i, j \in DOMAIN stored : i < j => stored[i].height > stored[j].height
              /\ Len(stored) <= BlocksKept
              /\ HeightsOf(stored) \subseteq HeightsOf(old) \cup HeightsOf(new)
              /\ \A h \in (HeightsOf(old) \cup HeightsOf(new)) \ HeightsOf(stored) :
                     /\ Len(stored) = BlocksKept
                     /\ \A k \in HeightsOf(stored) : h < k
              /\ \A i \in DOMAIN stored, j \in DOMAIN new :
                     (/\ new[j].height = stored[i].height
                      /\ \A k \in (j + 1)..Len(new) : new[k].height # new[j].height)
                     => stored[i] = new[j]]_vars

\* A full list: the heartbeat reported a height that is stored with the
\* reported block, and a height too low to be kept.
C34_Witness ==
    /\ response.status = 200
    /\ response.data.serverName \in DOMAIN heartbeat_data
    /\ LET new == Get(response.data.blocks, <<>>)
           stored == Get(heartbeat_data[response.data.serverName].blocks, <<>>)
       IN  /\ Len(stored) = BlocksKept
           /\ Len(new) = 2
           /\ new[1].height \notin HeightsOf(stored)
           /\ new[2] = stored[1]

\* C37: an accepted heartbeat whose validatorsInQuorum is empty or absent
\* leaves the validatorsInQuorum and the prevValidatorsInQuorum of the
\* server's record as they were; a non-empty list is stored, and when it
\* differs from the stored list the stored list becomes
\* prevValidatorsInQuorum. A list that is absent is taken as the empty list.
C37_EmptyListKeepsQuorum ==
    [][(response'.status = 200 /\ response'.data.serverName # "")
       => LET server_name == response'.data.serverName
              new == Get(response'.data.validatorsInQuorum, <<>>)
              existing_data == ExistingData(server_name)
              stored == heartbeat_data'[server_name]
          IN  IF new = <<>>
              THEN /\ Get(stored.validatorsInQuorum, <<>>) =
                          Get(existing_data.validatorsInQuorum, <<>>)
                   /\ Get(stored.prevValidatorsInQuorum, <<>>) =
                          Get(existing_data.prevValidatorsInQuorum, <<>>)
              ELSE /\ stored.validatorsInQuorum = Some(new)
                   /\ new # Get(existing_data.validatorsInQuorum, <<>>)
                      => stored.prevValidatorsInQuorum =
                             Some(Get(existing_data.validatorsInQuorum, <<>>))]_vars

\* The part of C37 about a non-empty list.
C37_ListReplaces ==
    [][(response'.status = 200 /\ response'.data.serverName # "")
       => LET server_name == response'.data.serverName
              new == Get(response'.data.validatorsInQuorum, <<>>)
              existing_data == ExistingData(server_name)
              stored == heartbeat_data'[server_name]
          IN  new # <<>>
              => /\ stored.validatorsInQuorum = Some(new)
                 /\ new # Get(existing_data.validatorsInQuorum, <<>>)
                    => stored.prevValidatorsInQuorum =
                           Some(Get(existing_data.validatorsInQuorum, <<>>))]_vars

\* A heartbeat with an empty list was accepted and the record of the
\* server holds the empty list.
C37_Witness ==
    /\ response.status = 200
    /\ response.data.validatorsInQuorum = Some(<<>>)
    /\ response.data.serverName \in DOMAIN heartbeat_data
    /\ heartbeat_data[response.data.serverName].validatorsInQuorum = Some(<<>>)
    /\ heartbeat_data[response.data.serverName].prevValidatorsInQuorum = None

\* C35: after a heartbeat of a server is answered 200, the file holds the
\* new record of the server and, for every other server, the record it held
\* before the heartbeat.
C35_OtherRecordsKept ==
    [][(response'.status = 200 /\ response'.data.serverName # "")
       => LET server_name == response'.data.serverName
              before == load_from_file(heartbeat_file)
              after == load_from_file(heartbeat_file')
          IN  /\ server_name \in DOMAIN after
              /\ after[server_name] = heartbeat_data'[server_name]
              /\ \A other \in DOMAIN before \ {server_name} :
                     /\ other \in DOMAIN after
                     /\ after[other] = before[other]]_vars

\* A heartbeat was accepted and the file holds the records of two servers.
C35_Witness ==
    /\ response.status = 200
    /\ response.data.serverName = "s2"
    /\ DOMAIN load_from_file(heartbeat_file) = {"s1", "s2"}

\* C38: a heartbeat whose save fails is answered 500 and leaves the map as
\* it was before the request; after every request the map and the file hold
\* the same records.
C38_SaveFailureKeepsMap ==
    [][/\ response'.status = 500 => heartbeat_data' = heartbeat_data
       /\ (response'.status # 0 /\ heartbeat_data = load_from_file(heartbeat_file))
          => heartbeat_data' = load_from_file(heartbeat_file')]_vars

\* A save failed and was answered 500.
C38_Witness ==
    /\ response.status = 500
    /\ response.data.serverName \in DOMAIN heartbeat_data
    /\ heartbeat_file.state = "json"

\* The part of C38 that the code keeps: a save that fails is answered 500
\* and leaves the file as it was.
C38_SaveFailureKeepsFile ==
    [][response'.status = 500 => heartbeat_file' = heartbeat_file]_vars

\* C36: of two heartbeats of different servers handled at the same time,
\* each is answered 200 (no rename fails), and when both are answered the
\* heartbeat file is JSON that holds the records of the map, those of both
\* servers.
C36_ConcurrentHeartbeatsSucceed ==
    [][\A thread \in Threads :
          (requests[thread].pc = "dumped" /\ requests'[thread].pc = "idle")
          => /\ response'.status = 200
             /\ (\A t \in Threads : requests'[t].pc = "idle")
                => /\ heartbeat_file'.state = "json"
                   /\ heartbeat_file'.data = heartbeat_data']_vars

\* Both threads have written the temporary file and neither has renamed it.
C36_Witness ==
    /\ \A thread \in Threads : requests[thread].pc = "dumped"
    /\ temp_file.state = "json"
    /\ DOMAIN temp_file.data = {"s1", "s2"}

\* The part of C36 that the code keeps: when no request is being handled
\* the heartbeat file is JSON that holds the records of the map.
C36_NoUpdateLost ==
    (/\ \A thread \in Threads : requests[thread].pc = "idle"
     /\ response.status # 0)
    => /\ heartbeat_file.state = "json"
       /\ heartbeat_file.data = heartbeat_data

====
